---- MODULE Spec2Model ----
(***************************************************************************)
(* Model of src/main.py: the meal order system.  Restaurants hold a rate,  *)
(* a capacity, the food left in stock and an order history; teams hold a   *)
(* demand and an order result; OrderSystem holds a FIFO of teams and the   *)
(* greedy optimizeOrder.  Python dictionaries are functions whose DOMAIN   *)
(* is the set of keys; lists are sequences.  The program is sequential:    *)
(* pc is the position of the one thread of control, "idle" between the     *)
(* caller's top-level calls.                                               *)
(***************************************************************************)
EXTENDS Integers, Sequences, FiniteSets, TLC

\* ------------------------------------------------------------------ names
NORMAL == "normal"
VEGETARIAN == "vegetarian"
GLUTEN_FREE == "gluten_free"
NUT_FREE == "nut_free"
FISH_FREE == "fish_free"

\* OrderSystem.FOODTYPE, in its fixed order
FOODTYPE == <<NORMAL, VEGETARIAN, GLUTEN_FREE, NUT_FREE, FISH_FREE>>

\* ------------------------------------------------------------------ bounds
\* largest meal count of a capacity, a demand or a direct order
MaxCount == 2
\* number of top-level calls the caller makes in one behaviour
MaxCalls == 2

\* the objects the caller constructs
RestNames == {"rest1", "rest2", "rest3"}
TeamNames == {"cisco1", "cisco2"}
\* the ratings of the tests (rest1 = 5, rest2 = 3)
Rates == {3, 5}
\* three ratings, for the lists whose order is examined
RankRates == {3, 4, 5}

\* ------------------------------------------------------------------ helpers
Range(s) == {s[i] : i \in 1..Len(s)}

\* the built-in min of line 202
Min(a, b) == IF a <= b THEN a ELSE b

RECURSIVE SumValues(_)
\* sum(d.values()) of lines 194 and 197
SumValues(d) ==
    IF DOMAIN d = {} THEN 0
    ELSE LET k == CHOOSE x \in DOMAIN d : TRUE
         IN  d[k] + SumValues([x \in DOMAIN d \ {k} |-> d[x]])

\* list.reverse()
Reverse(s) == [i \in 1..Len(s) |-> s[Len(s) + 1 - i]]

RECURSIVE InsertByKey(_, _, _)
\* one step of the binary insertion sort list.sort uses on short lists: x goes
\* after every element whose key is <= its own (the sort is stable)
InsertByKey(sorted, x, key) ==
    IF sorted = <<>> THEN <<x>>
    ELSE IF key[x] < key[Head(sorted)] THEN <<x>> \o sorted
    ELSE <<Head(sorted)>> \o InsertByKey(Tail(sorted), x, key)

RECURSIVE SortAscending(_, _)
SortAscending(s, key) ==
    IF s = <<>> THEN <<>>
    ELSE InsertByKey(SortAscending(SubSeq(s, 1, Len(s) - 1), key), s[Len(s)], key)

\* a sort that orders the keys but reverses only after sorting: equal keys end
\* in reversed order
SortThenReverse(s, key) == Reverse(SortAscending(s, key))

\* list.sort(key = ..., reverse = True): the list is reversed, sorted ascending
\* and stable, and reversed again, so equal keys keep their relative order
SortReverse(s, key) == Reverse(SortAscending(Reverse(s), key))

\* ------------------------------------------------------------------ inputs
\* the capacities the caller constructs the three restaurants with
\* (Restaurant.__init__): one roster in the shape of the tests' (a restaurant
\* that serves both food types, one that serves one, one that serves the other),
\* and one with explicit zeros and a restaurant with nothing to serve
CapacityChoices ==
    { [rest1 |-> [normal |-> MaxCount, vegetarian |-> 1],
       rest2 |-> [normal |-> 1],
       rest3 |-> [vegetarian |-> MaxCount]],
      [rest1 |-> [normal |-> 1, vegetarian |-> 0],
       rest2 |-> [normal |-> 0],
       rest3 |-> [normal |-> MaxCount, vegetarian |-> MaxCount]] }

\* demands the caller constructs teams with (Team.__init__); the second one is
\* more than either roster can serve
DemandChoices ==
    { [normal |-> MaxCount, vegetarian |-> 1],
      [normal |-> MaxCount + 2],
      [vegetarian |-> 1] }

\* orders the caller passes to Restaurant.addOrder directly
OrderChoices ==
    { [normal |-> 1],
      [normal |-> 1, vegetarian |-> MaxCount] }

\* ------------------------------------------------------------------ state
VARIABLES
    rate,             \* Restaurant._rate, by restaurant name
    capacity,         \* Restaurant._capacity
    foodInStock,      \* Restaurant._foodInStock
    orderHistory,     \* Restaurant._orderHistory: sequence of <<teamName, order>>
    teamDemand,       \* Team._demand, by team name
    teamOrderResult,  \* Team._orderResult: sequence of <<restName, order>>
    FIFO,             \* OrderSystem.FIFO
    restaurantList,   \* the caller's list of restaurants, sorted in place
    pc,               \* "idle", "while" (processOrder), "for", "teamAddOrder"
    call,             \* the top-level call running or last run
    inProcessOrder,   \* optimizeOrder was called by processOrder
    chooseLargeRestWhenEqualRate,
    team,             \* optimizeOrder's team
    demand,           \* optimizeOrder's working copy of the demand
    orderResultList,  \* optimizeOrder's list of <<restName, orderResult>>
    orderResult,      \* the order just placed in the restaurant
    idx,              \* position of "for rest in restaurantList"
    raised,           \* the exception the last top-level call ended with
    entry,            \* what optimizeOrder, or a direct addOrder, last found and was given
    fifoAtCall,       \* FIFO when processOrder was last called
    enqueued,         \* every team the caller has passed to addTeam, in order
    runLog,           \* the optimizeOrder runs of the last processOrder call
    calls             \* top-level calls made so far

restVars == <<rate, capacity, foodInStock, orderHistory>>
teamVars == <<teamDemand, teamOrderResult>>
localVars == <<team, demand, orderResultList, orderResult, idx>>
vars == <<rate, capacity, foodInStock, orderHistory, teamDemand, teamOrderResult,
          FIFO, restaurantList, pc, call, inProcessOrder,
          chooseLargeRestWhenEqualRate, team, demand, orderResultList,
          orderResult, idx, raised, entry, fifoAtCall, enqueued, runLog, calls>>

\* ------------------------------------------------------------------ exceptions
NoException == [type |-> "None"]

\* line 75
NotServedException(rest, meal) ==
    [type |-> "Exception", msg |-> "doesn't serve", rest |-> rest, meal |-> meal]

\* line 77
TooMuchException(meal) ==
    [type |-> "Exception", msg |-> "is too much", meal |-> meal]

\* line 211: the message is formatted from team.name and foodType
UnsatisfiedException(t, foodType) ==
    [type |-> "Exception", msg |-> "cannot be satisfied",
     team |-> t, foodType |-> foodType]

\* line 194: checkFood is a property, x.checkFood() calls the dictionary it returns
NotCallableException ==
    [type |-> "TypeError", msg |-> "'dict' object is not callable"]

\* ------------------------------------------------------------------ Restaurant
\* a validation without the test of line 76
NotServedMeals(stock, order) == {meal \in DOMAIN order : meal \notin DOMAIN stock}

\* the meals of an order that the validation of lines 73-77 rejects
RejectedMeals(stock, order) ==
    {meal \in DOMAIN order : meal \notin DOMAIN stock \/ order[meal] > stock[meal]}

\* the exception lines 74-77 raise for a rejected meal
AddOrderException(rest, stock, meal) ==
    IF meal \notin DOMAIN stock THEN NotServedException(rest, meal)
    ELSE TooMuchException(meal)

\* an update that stops after the first food type
StockAfterFirstMeal(stock, order) ==
    [meal \in DOMAIN stock |->
        IF meal = NORMAL /\ meal \in DOMAIN order THEN stock[meal] - order[meal]
        ELSE stock[meal]]

\* lines 79-80: _foodInStock after a valid order
StockAfterOrder(stock, order) ==
    [meal \in DOMAIN stock |->
        IF meal \in DOMAIN order THEN stock[meal] - order[meal] ELSE stock[meal]]

\* line 81
HistoryAfterOrder(history, teamName, order) == Append(history, <<teamName, order>>)

\* ------------------------------------------------------------------ optimizeOrder
\* line 192: key = lambda x: x.rate
SortKey == [r \in DOMAIN rate |-> rate[r]]

\* lines 191-194: the list after the sort
SortedList(list) == SortReverse(list, SortKey)

\* line 194: the key of the other branch raises for the first element it is given
SortRaises(list, flag) == flag /\ list # <<>>

\* an order that takes the whole stock, without the min of line 202
OrderForWholeStock(dem, stock) ==
    [foodType \in {f \in Range(FOODTYPE) : f \in DOMAIN dem /\ f \in DOMAIN stock} |->
        stock[foodType]]

\* an order for the whole demand, whatever the restaurant serves and has
OrderForDemand(dem, stock) == dem

\* an order of at most one meal of a food type from a restaurant
OrderForOne(dem, stock) ==
    [foodType \in {f \in Range(FOODTYPE) : f \in DOMAIN dem /\ f \in DOMAIN stock} |->
        Min(Min(dem[foodType], stock[foodType]), 1)]

\* lines 199-202: the order placed in a restaurant with this stock
OrderFor(dem, stock) ==
    [foodType \in {f \in Range(FOODTYPE) : f \in DOMAIN dem /\ f \in DOMAIN stock} |->
        Min(dem[foodType], stock[foodType])]

\* a loop that never takes an order off the demand
DemandAfterUnchanged(dem, order) == dem

\* line 203: the working demand after the order
DemandAfter(dem, order) ==
    [foodType \in DOMAIN dem |->
        IF foodType \in DOMAIN order THEN dem[foodType] - order[foodType]
        ELSE dem[foodType]]

\* line 197
Skipped(stock) == SumValues(stock) = 0

\* a final check that lets one missing meal pass
UnsatisfiedByTwo(dem) == {foodType \in DOMAIN dem : dem[foodType] > 1}

\* a final check that blames every food type of the demand once one is unsatisfied
UnsatisfiedAnyKey(dem) ==
    IF \E foodType \in DOMAIN dem : dem[foodType] > 0 THEN DOMAIN dem ELSE {}

\* lines 209-210: the food types the final check finds unsatisfied
Unsatisfied(dem) == {foodType \in DOMAIN dem : dem[foodType] > 0}

\* ------------------------------------------------------------------ OrderSystem
RECURSIVE AppendEach(_, _)
\* lines 167-168: "for i in team: self.FIFO.append(i)"
AppendEach(fifo, ts) ==
    IF ts = <<>> THEN fifo ELSE AppendEach(Append(fifo, Head(ts)), Tail(ts))

\* self.FIFO.pop(), which takes the team enqueued last
PopLast(fifo) == [team |-> fifo[Len(fifo)], rest |-> SubSeq(fifo, 1, Len(fifo) - 1)]

\* line 172: self.FIFO.pop(0)
Pop(fifo) == [team |-> Head(fifo), rest |-> Tail(fifo)]

\* ------------------------------------------------------------------ Init
NoEntry == [team |-> "none"]

\* the caller's lists of the three restaurants, in any order
RestaurantLists ==
    {list \in [1..Cardinality(RestNames) -> RestNames] : Range(list) = RestNames}

\* the objects as their constructors leave them (lines 39-44, 114-116, 161),
\* before any call
Constructed ==
    /\ foodInStock = capacity
    /\ orderHistory = [r \in DOMAIN capacity |-> <<>>]
    /\ teamOrderResult = [t \in DOMAIN teamDemand |-> <<>>]
    /\ FIFO = <<>>
    /\ pc = "idle"
    /\ call = "none"
    /\ inProcessOrder = FALSE
    /\ chooseLargeRestWhenEqualRate = FALSE
    /\ team = "none"
    /\ demand = <<>>
    /\ orderResultList = <<>>
    /\ orderResult = <<>>
    /\ idx = 0
    /\ raised = NoException
    /\ entry = NoEntry
    /\ fifoAtCall = <<>>
    /\ enqueued = <<>>
    /\ runLog = <<>>
    /\ calls = 0

\* restaurants of two rates in a list in name order, any demands
Init ==
    /\ rate \in [RestNames -> Rates]
    /\ capacity \in CapacityChoices
    /\ teamDemand \in [TeamNames -> DemandChoices]
    /\ restaurantList = <<"rest1", "rest2", "rest3">>
    /\ Constructed

\* restaurants of three rates in a list in any order, one demand
InitRank ==
    /\ rate \in [RestNames -> RankRates]
    /\ capacity \in CapacityChoices
    /\ teamDemand = [t \in TeamNames |-> [normal |-> MaxCount, vegetarian |-> 1]]
    /\ restaurantList \in RestaurantLists
    /\ Constructed

\* ------------------------------------------------------------------ actions
\* lines 191-195: optimizeOrder is entered for team t
Enter(t, flag, fromProcessOrder) ==
    /\ team' = t
    /\ chooseLargeRestWhenEqualRate' = flag
    /\ entry' = [team |-> t, stock |-> foodInStock, history |-> orderHistory,
                 list |-> restaurantList, result |-> teamOrderResult[t],
                 flag |-> flag]
    /\ runLog' = IF fromProcessOrder
                 THEN Append(runLog, [team |-> t, stock |-> foodInStock,
                                      history |-> orderHistory,
                                      results |-> teamOrderResult, orders |-> <<>>])
                 ELSE <<>>
    /\ IF SortRaises(restaurantList, flag)
       THEN /\ raised' = NotCallableException
            /\ pc' = "idle"
            /\ UNCHANGED <<restaurantList, demand, orderResultList, idx>>
       ELSE /\ restaurantList' = SortedList(restaurantList)
            /\ demand' = teamDemand[t]
            /\ orderResultList' = <<>>
            /\ idx' = 1
            /\ pc' = "for"
            /\ raised' = NoException
    /\ UNCHANGED <<restVars, teamVars, orderResult>>

\* the caller calls OrderSystem.optimizeOrder(team, restaurantList, flag)
OptimizeOrder(t, flag) ==
    /\ pc = "idle"
    /\ calls < MaxCalls
    /\ calls' = calls + 1
    /\ call' = "optimizeOrder"
    /\ inProcessOrder' = FALSE
    /\ Enter(t, flag, FALSE)
    /\ UNCHANGED <<FIFO, fifoAtCall, enqueued>>

\* a loop that works on team.demand itself, without the copy of line 195
ForRestAliased ==
    /\ pc = "for"
    /\ idx <= Len(restaurantList)
    /\ LET rest == restaurantList[idx]
           stock == foodInStock[rest]
           order == OrderFor(demand, stock)
           rejected == RejectedMeals(stock, order)
       IN  IF Skipped(stock)
           THEN /\ idx' = idx + 1
                /\ UNCHANGED <<foodInStock, orderHistory, demand, orderResultList,
                               orderResult, pc, raised, runLog, teamDemand>>
           ELSE /\ demand' = DemandAfter(demand, order)
                /\ teamDemand' = [teamDemand EXCEPT ![team] = demand']
                /\ orderResultList' = Append(orderResultList, <<rest, order>>)
                /\ runLog' = IF inProcessOrder
                             THEN [runLog EXCEPT ![Len(runLog)].orders = orderResultList']
                             ELSE runLog
                /\ idx' = idx
                /\ IF rejected # {}
                   THEN /\ \E meal \in rejected :
                              raised' = AddOrderException(rest, stock, meal)
                        /\ pc' = "idle"
                        /\ UNCHANGED <<foodInStock, orderHistory, orderResult>>
                   ELSE /\ foodInStock' = [foodInStock EXCEPT ![rest] = StockAfterOrder(stock, order)]
                        /\ orderHistory' = [orderHistory EXCEPT ![rest] = HistoryAfterOrder(@, team, order)]
                        /\ orderResult' = order
                        /\ pc' = "teamAddOrder"
                        /\ UNCHANGED raised
    /\ UNCHANGED <<rate, capacity, teamOrderResult, FIFO, restaurantList, call, inProcessOrder,
                   chooseLargeRestWhenEqualRate, team, entry, fifoAtCall, enqueued, calls>>

\* a loop that ends at the first restaurant with nothing in stock (break for the
\* continue of line 198)
ForRestBreak ==
    /\ pc = "for"
    /\ idx <= Len(restaurantList)
    /\ LET rest == restaurantList[idx]
           stock == foodInStock[rest]
           order == OrderFor(demand, stock)
           rejected == RejectedMeals(stock, order)
       IN  IF Skipped(stock)
           THEN /\ idx' = Len(restaurantList) + 1
                /\ UNCHANGED <<foodInStock, orderHistory, demand, orderResultList,
                               orderResult, pc, raised, runLog>>
           ELSE /\ demand' = DemandAfter(demand, order)
                /\ orderResultList' = Append(orderResultList, <<rest, order>>)
                /\ runLog' = IF inProcessOrder
                             THEN [runLog EXCEPT ![Len(runLog)].orders = orderResultList']
                             ELSE runLog
                /\ idx' = idx
                /\ IF rejected # {}
                   THEN /\ \E meal \in rejected :
                              raised' = AddOrderException(rest, stock, meal)
                        /\ pc' = "idle"
                        /\ UNCHANGED <<foodInStock, orderHistory, orderResult>>
                   ELSE /\ foodInStock' = [foodInStock EXCEPT ![rest] = StockAfterOrder(stock, order)]
                        /\ orderHistory' = [orderHistory EXCEPT ![rest] = HistoryAfterOrder(@, team, order)]
                        /\ orderResult' = order
                        /\ pc' = "teamAddOrder"
                        /\ UNCHANGED raised
    /\ UNCHANGED <<rate, capacity, teamVars, FIFO, restaurantList, call, inProcessOrder,
                   chooseLargeRestWhenEqualRate, team, entry, fifoAtCall, enqueued, calls>>

\* lines 196-206: one restaurant of the loop, up to rest.addOrder
ForRest ==
    /\ pc = "for"
    /\ idx <= Len(restaurantList)
    /\ LET rest == restaurantList[idx]
           stock == foodInStock[rest]
           order == OrderFor(demand, stock)
           rejected == RejectedMeals(stock, order)
       IN  IF Skipped(stock)
           THEN /\ idx' = idx + 1
                /\ UNCHANGED <<foodInStock, orderHistory, demand, orderResultList,
                               orderResult, pc, raised, runLog>>
           ELSE /\ demand' = DemandAfter(demand, order)
                /\ orderResultList' = Append(orderResultList, <<rest, order>>)
                /\ runLog' = IF inProcessOrder
                             THEN [runLog EXCEPT ![Len(runLog)].orders = orderResultList']
                             ELSE runLog
                /\ idx' = idx
                /\ IF rejected # {}
                   THEN /\ \E meal \in rejected :
                              raised' = AddOrderException(rest, stock, meal)
                        /\ pc' = "idle"
                        /\ UNCHANGED <<foodInStock, orderHistory, orderResult>>
                   ELSE /\ foodInStock' = [foodInStock EXCEPT ![rest] = StockAfterOrder(stock, order)]
                        /\ orderHistory' = [orderHistory EXCEPT ![rest] = HistoryAfterOrder(@, team, order)]
                        /\ orderResult' = order
                        /\ pc' = "teamAddOrder"
                        /\ UNCHANGED raised
    /\ UNCHANGED <<rate, capacity, teamVars, FIFO, restaurantList, call, inProcessOrder,
                   chooseLargeRestWhenEqualRate, team, entry, fifoAtCall, enqueued, calls>>

\* a team that records only the orders with a positive count
TeamAddOrderNonEmpty ==
    /\ pc = "teamAddOrder"
    /\ teamOrderResult' =
           IF \E c \in DOMAIN orderResult : orderResult[c] > 0
           THEN [teamOrderResult EXCEPT
                    ![team] = Append(@, <<restaurantList[idx], orderResult>>)]
           ELSE teamOrderResult
    /\ idx' = idx + 1
    /\ pc' = "for"
    /\ UNCHANGED <<restVars, teamDemand, FIFO, restaurantList, call, inProcessOrder,
                   chooseLargeRestWhenEqualRate, team, demand, orderResultList,
                   orderResult, raised, entry, fifoAtCall, enqueued, runLog, calls>>

\* line 207 (Team.addOrder, lines 130-132)
TeamAddOrder ==
    /\ pc = "teamAddOrder"
    /\ teamOrderResult' = [teamOrderResult EXCEPT
                              ![team] = Append(@, <<restaurantList[idx], orderResult>>)]
    /\ idx' = idx + 1
    /\ pc' = "for"
    /\ UNCHANGED <<restVars, teamDemand, FIFO, restaurantList, call, inProcessOrder,
                   chooseLargeRestWhenEqualRate, team, demand, orderResultList,
                   orderResult, raised, entry, fifoAtCall, enqueued, runLog, calls>>

\* a check that undoes the orders of the run before it raises
CheckDemandRollback ==
    /\ pc = "for"
    /\ idx > Len(restaurantList)
    /\ IF Unsatisfied(demand) = {}
       THEN /\ pc' = IF inProcessOrder THEN "while" ELSE "idle"
            /\ UNCHANGED <<raised, foodInStock, orderHistory, teamOrderResult>>
       ELSE /\ \E foodType \in Unsatisfied(demand) :
                  raised' = UnsatisfiedException(team, foodType)
            /\ pc' = "idle"
            /\ foodInStock' = entry.stock
            /\ orderHistory' = entry.history
            /\ teamOrderResult' = [teamOrderResult EXCEPT ![team] = entry.result]
    /\ UNCHANGED <<rate, capacity, teamDemand, FIFO, restaurantList, call, inProcessOrder,
                   chooseLargeRestWhenEqualRate, team, demand, orderResultList,
                   orderResult, idx, entry, fifoAtCall, enqueued, runLog, calls>>

\* a check whose exception processOrder swallows, going on with the next team
CheckDemandContinue ==
    /\ pc = "for"
    /\ idx > Len(restaurantList)
    /\ IF Unsatisfied(demand) = {}
       THEN /\ pc' = IF inProcessOrder THEN "while" ELSE "idle"
            /\ UNCHANGED raised
       ELSE /\ \E foodType \in Unsatisfied(demand) :
                  raised' = UnsatisfiedException(team, foodType)
            /\ pc' = IF inProcessOrder THEN "while" ELSE "idle"
    /\ UNCHANGED <<restVars, teamVars, FIFO, restaurantList, call, inProcessOrder,
                   chooseLargeRestWhenEqualRate, team, demand, orderResultList,
                   orderResult, idx, entry, fifoAtCall, enqueued, runLog, calls>>

\* lines 209-211: the check after the loop; any unsatisfied food type may be the
\* first one the dictionary yields
CheckDemand ==
    /\ pc = "for"
    /\ idx > Len(restaurantList)
    /\ IF Unsatisfied(demand) = {}
       THEN /\ pc' = IF inProcessOrder THEN "while" ELSE "idle"
            /\ UNCHANGED raised
       ELSE /\ \E foodType \in Unsatisfied(demand) :
                  raised' = UnsatisfiedException(team, foodType)
            /\ pc' = "idle"
    /\ UNCHANGED <<restVars, teamVars, FIFO, restaurantList, call, inProcessOrder,
                   chooseLargeRestWhenEqualRate, team, demand, orderResultList,
                   orderResult, idx, entry, fifoAtCall, enqueued, runLog, calls>>

\* lines 163-165: addTeam(team) with a Team
AddTeam(t) ==
    /\ pc = "idle"
    /\ calls < MaxCalls
    /\ calls' = calls + 1
    /\ call' = "addTeam"
    /\ FIFO' = Append(FIFO, t)
    /\ enqueued' = Append(enqueued, t)
    /\ raised' = NoException
    /\ UNCHANGED <<restVars, teamVars, restaurantList, pc, inProcessOrder,
                   chooseLargeRestWhenEqualRate, localVars, entry, fifoAtCall, runLog>>

\* lines 166-168: addTeam(team) with a list of teams
AddTeamList(ts) ==
    /\ pc = "idle"
    /\ calls < MaxCalls
    /\ calls' = calls + 1
    /\ call' = "addTeam"
    /\ FIFO' = AppendEach(FIFO, ts)
    /\ enqueued' = enqueued \o ts
    /\ raised' = NoException
    /\ UNCHANGED <<restVars, teamVars, restaurantList, pc, inProcessOrder,
                   chooseLargeRestWhenEqualRate, localVars, entry, fifoAtCall, runLog>>

\* line 170: the caller calls processOrder(restaurantList, flag)
ProcessOrder(flag) ==
    /\ pc = "idle"
    /\ calls < MaxCalls
    /\ calls' = calls + 1
    /\ call' = "processOrder"
    /\ inProcessOrder' = TRUE
    /\ chooseLargeRestWhenEqualRate' = flag
    /\ fifoAtCall' = FIFO
    /\ runLog' = <<>>
    /\ raised' = NoException
    /\ pc' = "while"
    /\ UNCHANGED <<restVars, teamVars, FIFO, restaurantList, localVars, entry, enqueued>>

\* lines 171-173: one turn of "while self.FIFO"
WhileFIFO ==
    /\ pc = "while"
    /\ IF FIFO = <<>>
       THEN /\ pc' = "idle"
            /\ UNCHANGED <<restVars, teamVars, FIFO, restaurantList,
                           chooseLargeRestWhenEqualRate, localVars, raised, entry, runLog>>
       ELSE /\ FIFO' = Pop(FIFO).rest
            /\ Enter(Pop(FIFO).team, chooseLargeRestWhenEqualRate, TRUE)
    /\ UNCHANGED <<call, inProcessOrder, fifoAtCall, enqueued, calls>>

\* an addOrder that validates and updates in one loop: the meals before the
\* rejected one are already taken out of the stock when it raises
RestaurantAddOrderPartial(rest, teamName, order) ==
    /\ pc = "idle"
    /\ calls < MaxCalls
    /\ calls' = calls + 1
    /\ call' = "addOrder"
    /\ entry' = [team |-> teamName, rest |-> rest, order |-> order,
                 stock |-> foodInStock, history |-> orderHistory]
    /\ LET stock == foodInStock[rest]
           rejected == RejectedMeals(stock, order)
       IN  IF rejected # {}
           THEN /\ \E meal \in rejected :
                      raised' = AddOrderException(rest, stock, meal)
                /\ foodInStock' = [foodInStock EXCEPT ![rest] =
                       StockAfterOrder(stock, [m \in DOMAIN order \ rejected |-> order[m]])]
                /\ UNCHANGED orderHistory
           ELSE /\ foodInStock' = [foodInStock EXCEPT ![rest] = StockAfterOrder(stock, order)]
                /\ orderHistory' = [orderHistory EXCEPT ![rest] = HistoryAfterOrder(@, teamName, order)]
                /\ raised' = NoException
    /\ UNCHANGED <<rate, capacity, teamVars, FIFO, restaurantList, pc, inProcessOrder,
                   chooseLargeRestWhenEqualRate, localVars, fifoAtCall,
                   enqueued, runLog>>

\* the caller calls rest.addOrder(teamName, order) itself (lines 64-81)
RestaurantAddOrder(rest, teamName, order) ==
    /\ pc = "idle"
    /\ calls < MaxCalls
    /\ calls' = calls + 1
    /\ call' = "addOrder"
    /\ entry' = [team |-> teamName, rest |-> rest, order |-> order,
                 stock |-> foodInStock, history |-> orderHistory]
    /\ LET stock == foodInStock[rest]
           rejected == RejectedMeals(stock, order)
       IN  IF rejected # {}
           THEN /\ \E meal \in rejected :
                      raised' = AddOrderException(rest, stock, meal)
                /\ UNCHANGED <<foodInStock, orderHistory>>
           ELSE /\ foodInStock' = [foodInStock EXCEPT ![rest] = StockAfterOrder(stock, order)]
                /\ orderHistory' = [orderHistory EXCEPT ![rest] = HistoryAfterOrder(@, teamName, order)]
                /\ raised' = NoException
    /\ UNCHANGED <<rate, capacity, teamVars, FIFO, restaurantList, pc, inProcessOrder,
                   chooseLargeRestWhenEqualRate, localVars, fifoAtCall,
                   enqueued, runLog>>

TeamLists == {<<a, b>> : a \in TeamNames, b \in TeamNames}

\* the caller uses optimizeOrder and the FIFO
Next ==
    \/ \E t \in TeamNames, flag \in BOOLEAN : OptimizeOrder(t, flag)
    \/ ForRest
    \/ TeamAddOrder
    \/ CheckDemand
    \/ \E t \in TeamNames : AddTeam(t)
    \/ \E ts \in TeamLists : AddTeamList(ts)
    \/ \E flag \in BOOLEAN : ProcessOrder(flag)
    \/ WhileFIFO

Spec == Init /\ [][Next]_vars

\* the same calls on lists in any order
SpecRank == InitRank /\ [][Next]_vars

\* three teams, for the queues with a team before and a team behind another
DrainTeams == TeamNames \cup {"cisco3"}

\* the lists of the three teams the caller passes to addTeam
DrainLists == {ts \in [1..Cardinality(DrainTeams) -> DrainTeams] : Range(ts) = DrainTeams}

InitDrain ==
    /\ rate \in [RestNames -> Rates]
    /\ capacity \in CapacityChoices
    /\ teamDemand \in [DrainTeams -> DemandChoices]
    /\ restaurantList = <<"rest1", "rest2", "rest3">>
    /\ Constructed

\* the caller enqueues the three teams and processes the FIFO
NextDrain ==
    \/ \E ts \in DrainLists : AddTeamList(ts)
    \/ \E flag \in BOOLEAN : ProcessOrder(flag)
    \/ WhileFIFO
    \/ ForRest
    \/ TeamAddOrder
    \/ CheckDemand

SpecDrain == InitDrain /\ [][NextDrain]_vars

\* the team and the restaurants of testSingleTeamTestWithUniqueRates (lines
\* 246-262), with the second team of testMultipleTeamTest (lines 298-303)
ScenarioDemand ==
    [cisco1 |-> [normal |-> 38, vegetarian |-> 5, gluten_free |-> 7],
     cisco2 |-> [normal |-> 30, vegetarian |-> 8, gluten_free |-> 10]]

ScenarioRate == [rest1 |-> 5, rest2 |-> 3]

ScenarioCapacity ==
    [rest1 |-> [normal |-> 36, vegetarian |-> 4],
     rest2 |-> [normal |-> 60, vegetarian |-> 20, gluten_free |-> 20]]

\* the list [rest1, rest2] of line 263, or the same restaurants the other way
ScenarioLists == {<<"rest1", "rest2">>, <<"rest2", "rest1">>}

InitScenario ==
    /\ rate = ScenarioRate
    /\ capacity = ScenarioCapacity
    /\ teamDemand = ScenarioDemand
    /\ restaurantList \in ScenarioLists
    /\ Constructed

\* the calls of the tests on the tests' objects
SpecScenario == InitScenario /\ [][Next]_vars

\* the capacity the caller refills a restaurant with: enough of every food type
\* for any of the demands
ResetChoices == { [normal |-> MaxCount + 2, vegetarian |-> MaxCount] }

\* lines 58-62: rest.capacity = cap, between two calls
SetCapacity(rest, cap) ==
    /\ pc = "idle"
    /\ calls < MaxCalls
    /\ call' = "capacity"
    /\ capacity' = [capacity EXCEPT ![rest] = cap]
    /\ foodInStock' = [foodInStock EXCEPT ![rest] = cap]
    /\ raised' = NoException
    /\ UNCHANGED <<rate, orderHistory, teamVars, FIFO, restaurantList, inProcessOrder,
                   chooseLargeRestWhenEqualRate, localVars, pc, entry, fifoAtCall,
                   enqueued, runLog, calls>>

\* the caller also resets capacities between its calls
NextReset ==
    \/ Next
    \/ \E rest \in RestNames, cap \in ResetChoices : SetCapacity(rest, cap)

SpecReset == Init /\ [][NextReset]_vars

\* the caller also places orders in the restaurants itself
NextDirect ==
    \/ Next
    \/ \E rest \in RestNames, t \in TeamNames, order \in OrderChoices :
          RestaurantAddOrder(rest, t, order)

SpecDirect == Init /\ [][NextDirect]_vars

\* ------------------------------------------------------------------ properties
\* what an order grants of food type c (a food type absent from it counts as 0)
Granted(order, c) == IF c \in DOMAIN order THEN order[c] ELSE 0

RECURSIVE SumGranted(_, _)
\* the sum of c over the orders of a history of <<name, order>> pairs
SumGranted(history, c) ==
    IF history = <<>> THEN 0
    ELSE Granted(Head(history)[2], c) + SumGranted(Tail(history), c)

\* the entries of optimizeOrder's orderResultList placed in restaurant r
PlacedIn(r) == SelectSeq(orderResultList, LAMBDA e : e[1] = r)

\* the same entries as the restaurant records them
RecordedBy(r) == [i \in 1..Len(PlacedIn(r)) |-> <<team, PlacedIn(r)[i][2]>>]

RECURSIVE Supply(_, _, _)
\* the stock of c in the restaurants of a list that serve c
Supply(list, stock, c) ==
    IF list = <<>> THEN 0
    ELSE Granted(stock[Head(list)], c) + Supply(Tail(list), stock, c)

\* how much of c the team of the last run demands beyond the stock the run found
Short(c) == teamDemand[team][c] - Supply(entry.list, entry.stock, c)

PositionIn(list, x) == CHOOSE i \in 1..Len(list) : list[i] = x

\* the last optimizeOrder run has just returned without an exception
JustReturned ==
    \/ pc = "idle" /\ call = "optimizeOrder" /\ raised = NoException
    \/ pc = "while" /\ runLog # <<>>
    \/ pc = "idle" /\ call = "processOrder" /\ raised = NoException /\ runLog # <<>>

\* the last optimizeOrder run has just ended, by a return or by an exception
Ended ==
    \/ JustReturned
    \/ pc = "idle" /\ call \in {"optimizeOrder", "processOrder"} /\ raised # NoException

\* the last optimizeOrder run has just ended with the exception of line 211
Failed ==
    /\ pc = "idle"
    /\ call \in {"optimizeOrder", "processOrder"}
    /\ raised.type = "Exception"
    /\ raised.msg = "cannot be satisfied"

\* C1: conservation.  In every state the caller reaches with optimizeOrder,
\* addTeam and processOrder, whether the calls succeed or fail, every restaurant
\* has, for every food type c of its capacity, capacity[c] - foodInStock[c] equal
\* to the sum of c over the orders of its order history.
Conservation ==
    \A r \in RestNames : \A c \in DOMAIN capacity[r] :
        capacity[r][c] - foodInStock[r][c] = SumGranted(orderHistory[r], c)

\* a call has failed and a restaurant holds two orders, one of them positive
ConservationWitness ==
    /\ Failed
    /\ \E r \in RestNames :
          /\ Len(orderHistory[r]) >= 2
          /\ \E c \in DOMAIN capacity[r] : foodInStock[r][c] < capacity[r][c]

\* C2: no over-allocation.  After any sequence of optimizeOrder, processOrder and
\* direct Restaurant.addOrder calls (with non-negative counts), failing calls
\* included, every restaurant has 0 <= foodInStock[c] <= capacity[c] for every
\* food type c it serves.
NoOverAllocation ==
    \A r \in RestNames :
        /\ DOMAIN foodInStock[r] = DOMAIN capacity[r]
        /\ \A c \in DOMAIN foodInStock[r] :
              0 <= foodInStock[r][c] /\ foodInStock[r][c] <= capacity[r][c]

\* a direct order has been refused for asking too much of a restaurant that an
\* earlier order had emptied of some food type
NoOverAllocationWitness ==
    /\ pc = "idle"
    /\ call = "addOrder"
    /\ raised.type = "Exception"
    /\ raised.msg = "is too much"
    /\ \E r \in RestNames :
          /\ orderHistory[r] # <<>>
          /\ foodInStock[r][raised.meal] = 0
          /\ capacity[r][raised.meal] > 0

\* C3: demand satisfaction.  When optimizeOrder returns without an exception for
\* a team whose order result was empty before the call, the orders of the team's
\* order result sum, for every food type c of the demand, to demand[c], and they
\* hold no food type that is not in the demand.
DemandSatisfied ==
    (JustReturned /\ entry.result = <<>>) =>
        /\ \A c \in DOMAIN teamDemand[team] :
              SumGranted(teamOrderResult[team], c) = teamDemand[team][c]
        /\ \A i \in 1..Len(teamOrderResult[team]) :
              DOMAIN teamOrderResult[team][i][2] \subseteq DOMAIN teamDemand[team]

\* a run has returned after taking a positive amount from two restaurants
DemandSatisfiedWitness ==
    /\ JustReturned
    /\ entry.result = <<>>
    /\ \E i, j \in 1..Len(teamOrderResult[team]) :
          /\ i < j
          /\ \E c \in DOMAIN teamOrderResult[team][i][2] :
                /\ teamOrderResult[team][i][2][c] > 0
                /\ Granted(teamOrderResult[team][j][2], c) > 0

\* C4: optimizeOrder(team, restaurantList), the call with the default flag, ends
\* with the exception of line 211 exactly when, for some food type c of the
\* team's demand, demand[c] is more than the stock of c that the restaurants of
\* the list held at the start of the call; otherwise it returns normally.
FailsIffShort ==
    (Ended /\ entry.flag = FALSE) =>
        /\ Failed <=> (\E c \in DOMAIN teamDemand[team] : Short(c) > 0)
        /\ ~Failed => raised = NoException

\* a run has returned for a demand that took exactly all the stock of a food type
FailsIffShortWitness ==
    /\ JustReturned
    /\ entry.flag = FALSE
    /\ \E c \in DOMAIN teamDemand[team] : Short(c) = 0 /\ teamDemand[team][c] > 0

NoRollback ==
    Failed =>
        /\ idx > Len(restaurantList)
        /\ \A r \in Range(restaurantList) :
              PlacedIn(r) # <<>> \/ SumValues(foodInStock[r]) = 0
        /\ \A r \in RestNames :
              /\ \A c \in DOMAIN foodInStock[r] :
                    foodInStock[r][c] =
                        entry.stock[r][c] - SumGranted(PlacedIn(r), c)
              /\ orderHistory[r] = entry.history[r] \o RecordedBy(r)
        /\ teamOrderResult[team] = entry.result \o orderResultList

\* a run has failed after taking a positive amount from two restaurants
NoRollbackWitness ==
    /\ Failed
    /\ \E i, j \in 1..Len(orderResultList) :
          /\ i < j
          /\ \E c \in DOMAIN orderResultList[i][2] : orderResultList[i][2][c] > 0
          /\ \E c \in DOMAIN orderResultList[j][2] : orderResultList[j][2][c] > 0

\* an order with at least one positive count
NonEmpty(order) == \E c \in DOMAIN order : order[c] > 0

\* C7 as claimed: every order optimizeOrder appends to a restaurant's order
\* history or to a team's order result has at least one positive count; a
\* restaurant with no stock, or with stock that does not overlap the remaining
\* demand, gets no entry and the team gets none for it.
OnlyNonEmptyOrdersRecorded ==
    /\ \A r \in RestNames : \A i \in 1..Len(orderHistory[r]) :
          NonEmpty(orderHistory[r][i][2])
    /\ \A t \in TeamNames : \A i \in 1..Len(teamOrderResult[t]) :
          NonEmpty(teamOrderResult[t][i][2])

\* C8: with chooseLargeRestWhenEqualRate = False, optimizeOrder leaves the list a
\* permutation of the list it was given, in non-increasing order of rate, with
\* restaurants of equal rate in their relative order in the given list, and it
\* places its orders in the restaurants in the order of that list.
RankedByRate ==
    (entry.team # "none" /\ entry.flag = FALSE) =>
        /\ Len(restaurantList) = Len(entry.list)
        /\ Range(restaurantList) = Range(entry.list)
        /\ \A i, j \in 1..Len(restaurantList) :
              i < j =>
                 /\ rate[restaurantList[i]] >= rate[restaurantList[j]]
                 /\ rate[restaurantList[i]] = rate[restaurantList[j]] =>
                       PositionIn(entry.list, restaurantList[i])
                           < PositionIn(entry.list, restaurantList[j])
        /\ \A i, j \in 1..Len(orderResultList) :
              i < j =>
                 PositionIn(restaurantList, orderResultList[i][1])
                     < PositionIn(restaurantList, orderResultList[j][1])

\* a run has reordered the list, kept two restaurants of equal rate in their
\* order, and placed orders in two restaurants
RankedByRateWitness ==
    /\ Ended
    /\ entry.flag = FALSE
    /\ restaurantList # entry.list
    /\ \E i, j \in 1..Len(restaurantList) :
          /\ i < j
          /\ rate[restaurantList[i]] = rate[restaurantList[j]]
          /\ restaurantList[i] = "rest3"
    /\ Len(orderResultList) >= 2

\* the total stock optimizeOrder's second sort key is meant to measure
TotalAtEntry(r) == SumValues(entry.stock[r])

\* C9 as claimed: with chooseLargeRestWhenEqualRate = True, optimizeOrder ranks
\* the restaurants and completes the run: it ends with no exception or with that
\* of line 211, with the list in non-increasing order of rate and, among equal
\* rates, in non-increasing order of the total stock measured at the sort.
RankedByRateAndStock ==
    (Ended /\ entry.flag = TRUE) =>
        /\ raised = NoException \/ Failed
        /\ \A i, j \in 1..Len(restaurantList) :
              i < j =>
                 /\ rate[restaurantList[i]] >= rate[restaurantList[j]]
                 /\ rate[restaurantList[i]] = rate[restaurantList[j]] =>
                       TotalAtEntry(restaurantList[i]) >= TotalAtEntry(restaurantList[j])

\* the teams of the runs of the last processOrder call, in the order run
RunTeams == [i \in 1..Len(runLog) |-> runLog[i].team]

\* the orders of run k of the last processOrder call placed in restaurant r
RunPlacedIn(k, r) == SelectSeq(runLog[k].orders, LAMBDA e : e[1] = r)

\* C10: addTeam appends, a list element by element in the list's order;
\* processOrder takes the teams from the front of the FIFO, one optimizeOrder run
\* each, so the teams run so far followed by the teams still queued are the FIFO
\* as it was at the call; each run starts from the stock the run before it left;
\* and a processOrder call that ends without an exception leaves the FIFO empty
\* with one run for each team that was queued, in queue order.
DrainInOrder ==
    /\ Len(FIFO) <= Len(enqueued)
    /\ FIFO = SubSeq(enqueued, Len(enqueued) - Len(FIFO) + 1, Len(enqueued))
    /\ call = "processOrder" =>
          /\ RunTeams \o FIFO = fifoAtCall
          /\ \A k \in 1..(Len(runLog) - 1) : \A r \in RestNames :
                \A c \in DOMAIN foodInStock[r] :
                    runLog[k + 1].stock[r][c] =
                        runLog[k].stock[r][c] - SumGranted(RunPlacedIn(k, r), c)
          /\ (pc = "idle" /\ raised = NoException) =>
                FIFO = <<>> /\ RunTeams = fifoAtCall

\* processOrder has returned after running two different teams, the second of
\* which found less stock than the first
DrainInOrderWitness ==
    /\ pc = "idle"
    /\ call = "processOrder"
    /\ raised = NoException
    /\ Len(runLog) = 2
    /\ runLog[1].team # runLog[2].team
    /\ runLog[2].stock # runLog[1].stock
    /\ runLog[2].orders # <<>>

RECURSIVE RunsRecordedBy(_, _)
\* the orders of runs 1..k of the last processOrder call as restaurant r records
\* them
RunsRecordedBy(k, r) ==
    IF k = 0 THEN <<>>
    ELSE RunsRecordedBy(k - 1, r)
            \o [i \in 1..Len(RunPlacedIn(k, r)) |-> <<runLog[k].team, RunPlacedIn(k, r)[i][2]>>]

\* C11: fail-fast processOrder.  When an optimizeOrder run of a processOrder call
\* raises, processOrder ends at once with that exception, raised by its last
\* run; the failing team is out of the FIFO, the teams behind it stay queued in
\* their order and have been given nothing (their order results are as at the
\* call and no restaurant has recorded an order for them since), and the orders
\* of the earlier teams and of the failing team stay in the restaurants' stock
\* and histories.
FailFast ==
    (call = "processOrder" /\ raised # NoException) =>
        LET n == Len(runLog)
        IN  /\ pc = "idle"
            /\ n >= 1
            /\ entry.team = runLog[n].team
            /\ Failed => raised.team = runLog[n].team
            /\ FIFO = SubSeq(fifoAtCall, n + 1, Len(fifoAtCall))
            /\ \A i \in 1..n : runLog[i].team = fifoAtCall[i]
            /\ \A t \in Range(FIFO) \ Range(RunTeams) :
                  teamOrderResult[t] = runLog[1].results[t]
            /\ \A r \in RestNames :
                  /\ orderHistory[r] = runLog[1].history[r] \o RunsRecordedBy(n, r)
                  /\ \A c \in DOMAIN foodInStock[r] :
                        foodInStock[r][c] =
                            runLog[1].stock[r][c] - SumGranted(RunsRecordedBy(n, r), c)

\* processOrder has failed on the second of three teams, after orders for the
\* first and a positive order for the second, with the third left queued
FailFastWitness ==
    /\ pc = "idle"
    /\ call = "processOrder"
    /\ Failed
    /\ Len(runLog) = 2
    /\ Len(FIFO) = 1
    /\ FIFO[1] \notin Range(RunTeams)
    /\ \E e \in Range(runLog[1].orders) : NonEmpty(e[2])
    /\ \E e \in Range(runLog[2].orders) : NonEmpty(e[2])

\* C12: Restaurant.addOrder is all-or-nothing.  If a meal of the order is not
\* in the restaurant's stock or asks for more than the stock of it, the call
\* raises and leaves every stock and history as it was, whatever the other meals
\* of the order; otherwise it takes every meal of the order out of the
\* restaurant's stock and appends exactly the entry (teamName, order) to its
\* history, leaving the other restaurants alone.
AllOrNothing ==
    (call = "addOrder") =>
        LET r == entry.rest
            order == entry.order
            before == entry.stock[r]
        IN  IF \E m \in DOMAIN order : m \notin DOMAIN before \/ order[m] > before[m]
            THEN /\ raised.type = "Exception"
                 /\ foodInStock = entry.stock
                 /\ orderHistory = entry.history
            ELSE /\ raised = NoException
                 /\ foodInStock =
                        [entry.stock EXCEPT
                            ![r] = [m \in DOMAIN before |-> before[m] - Granted(order, m)]]
                 /\ orderHistory =
                        [entry.history EXCEPT ![r] = Append(@, <<entry.team, order>>)]

\* a direct order has been refused although one of its meals could be served
AllOrNothingWitness ==
    /\ call = "addOrder"
    /\ raised # NoException
    /\ \E m \in DOMAIN entry.order :
          /\ m \in DOMAIN entry.stock[entry.rest]
          /\ entry.order[m] > 0
          /\ entry.order[m] <= entry.stock[entry.rest][m]

\* what the scenario's restaurants are to grant
ScenarioGrantA == [normal |-> 36, vegetarian |-> 4]

ScenarioGrantB == [normal |-> 2, vegetarian |-> 1, gluten_free |-> 7]

\* the first call on the scenario's objects was optimizeOrder(team1, list) with
\* the default flag, and it has ended
ScenarioRun ==
    /\ calls = 1
    /\ call = "optimizeOrder"
    /\ pc = "idle"
    /\ team = "cisco1"
    /\ ~chooseLargeRestWhenEqualRate
    /\ teamDemand = ScenarioDemand
    /\ entry.stock = ScenarioCapacity
    /\ rate = ScenarioRate

\* C13: Scenario A.  optimizeOrder for the demand {normal: 38, vegetarian: 5,
\* gluten_free: 7} on rest1 (rate 5, {normal: 36, vegetarian: 4}) and rest2
\* (rate 3, {normal: 60, vegetarian: 20, gluten_free: 20}) returns without an
\* exception with exactly two orders, {normal: 36, vegetarian: 4} in rest1 and
\* then {normal: 2, vegetarian: 1, gluten_free: 7} in rest2, and leaves rest1
\* with {normal: 0, vegetarian: 0} and rest2 with {normal: 58, vegetarian: 19,
\* gluten_free: 13}.
ScenarioA ==
    ScenarioRun =>
        /\ raised = NoException
        /\ orderResultList = << <<"rest1", ScenarioGrantA>>, <<"rest2", ScenarioGrantB>> >>
        /\ teamOrderResult["cisco1"] = orderResultList
        /\ orderHistory = [rest1 |-> << <<"cisco1", ScenarioGrantA>> >>,
                           rest2 |-> << <<"cisco1", ScenarioGrantB>> >>]
        /\ foodInStock = [rest1 |-> [normal |-> 0, vegetarian |-> 0],
                          rest2 |-> [normal |-> 58, vegetarian |-> 19, gluten_free |-> 13]]

\* the scenario has been run on the list as the test passes it
ScenarioAWitness ==
    /\ ScenarioRun
    /\ entry.list = <<"rest1", "rest2">>
    /\ Len(teamOrderResult["cisco1"]) = 2

\* C14: conservation survives a capacity reset.  In every state the caller
\* reaches with optimizeOrder, addTeam, processOrder and capacity resets between
\* them, a restaurant's capacity[c] - foodInStock[c] is the sum of c over the
\* orders of its history, for every food type c of its capacity.
ConservationAfterReset ==
    \A r \in DOMAIN capacity : \A c \in DOMAIN capacity[r] :
        SumGranted(orderHistory[r], c) = capacity[r][c] - foodInStock[r][c]

\* the first call was optimizeOrder for this team and ended with an exception
\* after orders that left some demand unmet; the second call, optimizeOrder for
\* the same team after a capacity reset, has returned
RetrySucceeded ==
    /\ pc = "idle"
    /\ call = "optimizeOrder"
    /\ raised = NoException
    /\ calls = 2
    /\ entry.result # <<>>
    /\ \E c \in DOMAIN teamDemand[team] : SumGranted(entry.result, c) < teamDemand[team][c]

\* C15: retry from scratch.  When optimizeOrder has failed for a team with the
\* exception of line 211, the caller has reset capacities and the second
\* optimizeOrder for the same team returns, the orders of the team's order
\* result sum, per food type c, to the team's demand[c].
RetrySumsToDemand ==
    RetrySucceeded =>
        \A c \in DOMAIN teamDemand[team] :
            SumGranted(teamOrderResult[team], c) = teamDemand[team][c]

\* C16: optimizeOrder and processOrder never change a team's demand, a
\* restaurant's capacity or a restaurant's rate: no step of a call, succeeding or
\* failing, changes them, so after the call they are what they were before it;
\* only the working copy of the demand is decremented.
DemandKept ==
    [][teamDemand' = teamDemand /\ capacity' = capacity /\ rate' = rate]_vars

\* a call has failed after its working demand went below the team's demand
DemandKeptWitness ==
    /\ Failed
    /\ \E c \in DOMAIN demand : demand[c] < teamDemand[team][c]
    /\ \E r \in DOMAIN capacity : foodInStock[r] # capacity[r]

\* C17: for non-negative demands and capacities, no optimizeOrder or
\* processOrder call ends with an exception of Restaurant.addOrder: every order
\* the loop passes to addOrder names only food types of the restaurant's stock
\* and asks for at most the stock of each.
NoCommitRejection ==
    /\ (call \in {"optimizeOrder", "processOrder"} /\ raised.type = "Exception") =>
           raised.msg = "cannot be satisfied"
    /\ (pc = "for" /\ idx <= Len(restaurantList)) =>
           LET stock == foodInStock[restaurantList[idx]]
               order == OrderFor(demand, stock)
           IN  \A c \in DOMAIN order : c \in DOMAIN stock /\ order[c] <= stock[c]
    /\ (pc = "teamAddOrder") =>
           LET stock == foodInStock[restaurantList[idx]]
           IN  \A c \in DOMAIN orderResult : c \in DOMAIN stock /\ stock[c] >= 0

\* the restaurant has just accepted an order for all it had of a food type, from
\* a team that also demands a food type the restaurant does not serve
NoCommitRejectionWitness ==
    /\ pc = "teamAddOrder"
    /\ \E c \in DOMAIN orderResult :
          orderResult[c] > 0 /\ foodInStock[restaurantList[idx]][c] = 0
    /\ \E c \in DOMAIN demand : c \notin DOMAIN foodInStock[restaurantList[idx]]

\* C18: greedy, best-ranked first.  Within one run, a restaurant is ordered a
\* positive amount of a food type c only if every restaurant before it in the
\* sorted list that serves c is left with no stock of c.
GreedyBestFirst ==
    \A k \in 1..Len(orderResultList) :
        \A c \in DOMAIN orderResultList[k][2] :
            orderResultList[k][2][c] > 0 =>
                \A i \in 1..(PositionIn(restaurantList, orderResultList[k][1]) - 1) :
                    c \in DOMAIN foodInStock[restaurantList[i]] =>
                        foodInStock[restaurantList[i]][c] = 0

\* a run has ended with positive orders of one food type in two restaurants
GreedyBestFirstWitness ==
    /\ Ended
    /\ \E j, k \in 1..Len(orderResultList) :
          /\ j < k
          /\ \E c \in DOMAIN orderResultList[j][2] :
                /\ orderResultList[j][2][c] > 0
                /\ Granted(orderResultList[k][2], c) > 0

RECURSIVE GreedyLoop(_, _, _)
\* lines 196-207 as a function: the stock and the working demand after the loop
\* has gone through the restaurants of list in the order of the list
GreedyLoop(list, stock, dem) ==
    IF list = <<>> THEN [stock |-> stock, demand |-> dem]
    ELSE LET rest == Head(list)
             order == OrderFor(dem, stock[rest])
         IN  IF Skipped(stock[rest]) THEN GreedyLoop(Tail(list), stock, dem)
             ELSE GreedyLoop(Tail(list),
                             [stock EXCEPT ![rest] = StockAfterOrder(@, order)],
                             DemandAfter(dem, order))

RECURSIVE FailsAt(_, _, _)
\* the runs of lines 171-173 for a sequence of demands, the restaurants tried in
\* the order of list: the position of the first demand left unsatisfied (lines
\* 209-211), 0 if every demand is satisfied
FailsAt(list, stock, dems) ==
    IF dems = <<>> THEN 0
    ELSE LET after == GreedyLoop(list, stock, Head(dems))
         IN  IF Unsatisfied(after.demand) # {} THEN 1
             ELSE LET later == FailsAt(list, after.stock, Tail(dems))
                  IN  IF later = 0 THEN 0 ELSE later + 1

\* the orders a list of restaurants can be tried in
Orders(list) == {l \in [1..Len(list) -> Range(list)] : Range(l) = Range(list)}

\* stocks and demands of a single call or of a FIFO of two teams
SensitivityStocks ==
    [RestNames -> {[normal |-> a, vegetarian |-> b] : a, b \in 0..MaxCount}
                  \cup {[normal |-> a] : a \in 1..MaxCount}]

SensitivityDemands ==
    {<<d>> : d \in DemandChoices} \cup {<<d, e>> : d, e \in DemandChoices}

\* the greedy result depends on the order of the restaurants: for the
\* restaurants with their rates there are stocks and demands for which the last
\* team's demand is left unsatisfied with the restaurants in the order the rates
\* give to some list of the caller, while every demand is satisfied with the
\* same restaurants and stocks tried in another order
OrderSensitive ==
    \E stock \in SensitivityStocks, dems \in SensitivityDemands :
        /\ \E list \in RestaurantLists : FailsAt(SortedList(list), stock, dems) = Len(dems)
        /\ \E l2 \in RestaurantLists : FailsAt(l2, stock, dems) = 0

\* the demands of the runs so far of the call that has just ended, and the stock
\* its first run found
RunDemands ==
    IF call = "optimizeOrder" THEN <<teamDemand[team]>>
    ELSE [i \in 1..Len(runLog) |-> teamDemand[runLog[i].team]]

RunStock == IF call = "optimizeOrder" THEN entry.stock ELSE runLog[1].stock

\* C19: the greedy result's success does not depend on the order of the
\* restaurants.  When a run of optimizeOrder has ended, in a single call or for
\* a later team of processOrder, by a return or by the exception of line 211,
\* the same demands against the same restaurants and stocks end the same way
\* with the restaurants tried in any other order: the same team fails, or none
\* does.  Only the restaurants the meals come from depend on the order.
OrderInsensitive ==
    (JustReturned \/ Failed) =>
        \A l2 \in Orders(entry.list) :
            FailsAt(l2, RunStock, RunDemands) = IF Failed THEN Len(RunDemands) ELSE 0

\* the second team of a FIFO has failed, and with the restaurants in another
\* order its meals would have come from other restaurants
OrderInsensitiveWitness ==
    /\ Failed
    /\ call = "processOrder"
    /\ Len(runLog) = 2
    /\ \E l2 \in Orders(entry.list) :
          GreedyLoop(l2, entry.stock, teamDemand[team]).stock # foodInStock

\* how many times x occurs in a list
Count(list, x) == Cardinality({i \in 1..Len(list) : list[i] = x})

\* the orders that occur in a restaurant's history or in a team's order result
OrdersOf(t, r) ==
    {e[2] : e \in Range(orderHistory[r])} \cup {e[2] : e \in Range(teamOrderResult[t])}

\* C20: the histories mirror each other.  In every state of optimizeOrder and
\* processOrder calls, the state a failed call leaves included, the entry
\* (team, order) occurs in a restaurant's order history as many times as
\* (restaurant, order) occurs in the team's order result; inside a run the
\* restaurant records first: between line 206 and line 207 the restaurant of the
\* loop holds the entry of the current order once more than the team.
HistoriesMirror ==
    \A t \in DOMAIN teamOrderResult : \A r \in DOMAIN orderHistory :
        \A order \in OrdersOf(t, r) :
            Count(orderHistory[r], <<t, order>>) =
                Count(teamOrderResult[t], <<r, order>>)
                + (IF /\ pc = "teamAddOrder"
                      /\ t = team
                      /\ r = restaurantList[idx]
                      /\ order = orderResult
                   THEN 1 ELSE 0)

\* a call has failed and left a team holding the same order of the same
\* restaurant twice, and another order of another restaurant
HistoriesMirrorWitness ==
    /\ Failed
    /\ \E t \in DOMAIN teamOrderResult :
          /\ \E e \in Range(teamOrderResult[t]) : Count(teamOrderResult[t], e) >= 2
          /\ \E e \in Range(teamOrderResult[t]) : NonEmpty(e[2])

====
